---- MODULE Spec2Model ----
(***************************************************************************)
(* Engine control of the chess backend: the HTTP handlers of the Stockfish *)
(* controller (initEngine, quitEngine, stopEngine, makeMove, analyze,      *)
(* getBestMove, setPosition, setMoves), the module-level engine handle     *)
(* `stockfish`, the module-level result `s_analysisResult`, and the engine *)
(* objects (LoggingEngine instances with their child processes) that the   *)
(* handlers drive.                                                         *)
(*                                                                         *)
(* Handlers are async functions: each `await` is a point where other       *)
(* requests run.  What is left of a suspended handler is the promise it    *)
(* awaits, so the handlers in flight are kept as the promises pending on   *)
(* each engine object (init, stop, quit), the go() completion callback     *)
(* stored in it (goCb), and the initEngine calls suspended before an       *)
(* engine object is theirs (importing, booting).  All promises of one kind *)
(* on one engine resolve on the same line or exit of that engine.          *)
(*                                                                         *)
(* `stockfish` holds the engine object it refers to.  An engine object the *)
(* handle no longer refers to can no longer be written to; it is kept in   *)
(* `detached` for as long as its process runs or a promise is pending on   *)
(* it, with what can still be observed of it.                              *)
(*                                                                         *)
(* The controller modelled is the one the complete router                  *)
(* (routes/stockfishRouter.js) loads: the only generation that exports     *)
(* every routed handler, getBestMove included.                             *)
(***************************************************************************)
EXTENDS Integers, Sequences, FiniteSets, Bags, TLC

MaxProc == 2     \* engine objects in existence or being created at one time
MaxClients == 2  \* observers registered on the event feed at one time
MaxTimers == 3           \* intervals set before the model stops registering clients

NoCb == ""       \* no completion callback stored

FENstartposition == "rnbqkbnr/pppppppp/8/8/8/8/PPPPPPPP/RNBQKBNR w KQkq - 0 1"
Omitted == ""
DefaultDepth == 20

BodyFens == {Omitted, FENstartposition}
BodyMoves == {<<>>, <<"e2e4">>}
DepthParams == {0, 10}          \* 0: req.params.depth is falsy
BestMoves == {"e2e4"}
Infinite == -1
NoDepth == -2

VARIABLES
  stockfish,          \* the module-level engine handle, with the object behind it
  s_analysisResult,   \* the module-level last result
  importing,          \* initEngine calls suspended at `await initLoggingEngine()`
  booting,            \* initEngine calls suspended at `await LoggingEngine.start()`
  detached,           \* bag of the engine objects no longer behind the handle
  last,               \* the step just taken: operation, response, lines written
  trip,               \* progress of a quit -> initialize round trip run on its own
  known,              \* the move the design holds as last known result
  held,               \* the move of the last resolved search, no search begun since
  script,             \* how far a client that plays a fixed scenario has come
  clients,            \* the module-level array of SSE clients
  conns,              \* ids of the SSE connections whose "close" is still to come
  timers,             \* number of intervals set by setInterval and not cleared
  feed                \* what the last step wrote to the clients' responses

vars == <<stockfish, s_analysisResult, importing, booting, detached, last, trip,
          known, held, script, clients, conns, timers, feed>>

----------------------------------------------------------------------------
(* Protocol lines *)

Line(cmd, fen, moves, depth) ==
  [cmd |-> cmd, fen |-> fen, moves |-> moves, depth |-> depth]

Cmd(cmd) == Line(cmd, "", <<>>, NoDepth)
PositionLine(fen, moves) == Line("position", fen, moves, NoDepth)
GoLine(depth) == Line("go", "", <<>>, depth)
InitialPosition == PositionLine(FENstartposition, <<>>)

(* The engine object *)

\* new LoggingEngine(path, ...): the child process is spawned
NewEngine ==
  [st |-> "idle", fen |-> FENstartposition, moves |-> <<>>,
   infinite |-> FALSE, stopped |-> FALSE,
   goCb |-> NoCb, init |-> "", stop |-> FALSE, quit |-> FALSE]

Undefined == [NewEngine EXCEPT !.st = "undefined"]   \* `let stockfish;`
Null == [NewEngine EXCEPT !.st = "null"]             \* `stockfish = null`

Truthy(h) == h.st \notin {"undefined", "null"}
Alive(e) == e.st \in {"idle", "searching"}

\* the process has exited: the callback and the readyok it owed never come
Exited(e) == [NewEngine EXCEPT !.st = "exited", !.stop = e.stop, !.quit = e.quit]

\* what one received command does to the engine
EngineRecv(e, line) ==
  CASE line.cmd = "position" -> [e EXCEPT !.fen = line.fen, !.moves = line.moves]
    [] line.cmd = "go"       -> [e EXCEPT !.st = "searching",
                                          !.infinite = (line.depth = Infinite),
                                          !.stopped = FALSE]
    [] line.cmd = "stop"     -> IF e.st = "searching"
                                THEN [e EXCEPT !.stopped = TRUE] ELSE e
    [] line.cmd = "quit"     -> Exited(e)
    [] OTHER                 -> e

RECURSIVE EngineRecvAll(_, _)
EngineRecvAll(e, lines) ==
  IF lines = <<>> THEN e
  ELSE EngineRecvAll(EngineRecv(e, Head(lines)), Tail(lines))

\* clients.forEach(client => client.res.write(...)): the write to the
\* response of a client whose channel has failed throws out of the loop
Throws == \E i \in 1..Len(clients) : ~clients[i].ok

\* the clients written to before the loop ends or is thrown out of
Got == {i \in 1..Len(clients) : \A j \in 1..i : clients[j].ok}

\* LoggingEngine.send: onSend(cmd), then super.send(cmd), in one try block;
\* Engine.send: the line reaches the process only while its stdin is open
Sent(e, lines) == IF Alive(e) /\ ~Throws THEN lines ELSE <<>>

send(e, lines) == EngineRecvAll(e, Sent(e, lines))

\* the engine will report bestmove: the search is depth-limited or was stopped
Finishing(e) == e.st = "searching" /\ (~e.infinite \/ e.stopped)

\* the handlers whose awaited engine line can no longer arrive
Orphans(e) ==
  {k \in {"search", "init"} :
     \/ k = "search" /\ e.goCb # NoCb
     \/ k = "init" /\ e.init # ""}

\* what is left to observe of an engine object once the handle has moved on:
\* no command reaches it, so an unstopped infinite search never reports
Detach(e) ==
  IF ~Alive(e) THEN e
  ELSE IF e.st = "searching" /\ ~Finishing(e)
       THEN [NewEngine EXCEPT !.st = "searching", !.infinite = TRUE,
                              !.init = e.init]
  ELSE [e EXCEPT !.fen = FENstartposition, !.moves = <<>>,
                 !.infinite = FALSE, !.stopped = FALSE]

\* nothing runs and nothing is pending: the object is collected
Garbage(e) == e.st = "exited" /\ ~e.stop /\ ~e.quit

Add(bag, e) == IF Garbage(e) THEN bag ELSE bag (+) SetToBag({Detach(e)})
Remove(bag, e) == bag (-) SetToBag({e})

\* the engine objects a line or an exit can arrive from
Engines ==
  {[at |-> "handle", e |-> stockfish] : x \in {h \in {stockfish} : Truthy(h)}}
    \cup {[at |-> "detached", e |-> d] : d \in BagToSet(detached)}

----------------------------------------------------------------------------
(* The session state of the design, read off the program state *)

InitInFlight == importing > 0 \/ booting > 0

State ==
  IF Truthy(stockfish) THEN
    IF ~Alive(stockfish) THEN "Terminated"
    ELSE IF stockfish.stop /\ stockfish.st = "searching" THEN "Stopping"
    ELSE IF stockfish.goCb # NoCb THEN "Searching"
    ELSE IF stockfish.init = "readyok" THEN "Initializing"
    ELSE "Ready"
  ELSE IF InitInFlight THEN "Initializing"
  ELSE IF stockfish = Null THEN "Terminated"
  ELSE "Uninitialized"

\* the unresolved search of the session, named by its completion callback
PendingSearch == stockfish.goCb

RECURSIVE Running(_)
Running(bag) ==
  IF BagToSet(bag) = {} THEN 0
  ELSE LET d == CHOOSE x \in BagToSet(bag) : TRUE
       IN (IF Alive(d) THEN 1 ELSE 0) + Running(Remove(bag, d))

\* the engine processes running
LiveProcs ==
  booting + (IF Alive(stockfish) THEN 1 ELSE 0) + Running(detached)

Objects ==
  booting + (IF Truthy(stockfish) THEN 1 ELSE 0) + BagCardinality(detached)

Pre ==
  [state |-> State, stockfish |-> stockfish, result |-> s_analysisResult,
   live |-> LiveProcs, importing |-> importing]

Step(op, kind, move, to, wrote) ==
  [op |-> op, resp |-> kind, move |-> move, file |-> "", orphans |-> {},
   wrote |-> wrote, to |-> to, pre |-> Pre]

\* nothing was written to any client
NoFeed ==
  [op |-> "", got |-> {}, threw |-> FALSE, writes |-> <<>>, before |-> <<>>,
   closed |-> 0]

Init ==
  /\ stockfish = Undefined
  /\ s_analysisResult = ""
  /\ importing = 0
  /\ booting = 0
  /\ detached = EmptyBag
  /\ last = [op |-> "boot", resp |-> "none", move |-> "", file |-> "",
             orphans |-> {}, wrote |-> <<>>, to |-> "",
             pre |-> [state |-> "Uninitialized", stockfish |-> Undefined,
                      result |-> "", live |-> 0, importing |-> 0]]
  /\ trip = "none"
  /\ known = ""
  /\ held = ""
  /\ script = "start"
  /\ clients = <<>>
  /\ conns = <<>>
  /\ timers = 0
  /\ feed = NoFeed

----------------------------------------------------------------------------
(* initEngine: POST /engine/init *)

FileStates == {"ok", "missing", "notexec"}
doesExist(f) == f # "missing"
isExecutable(f) == f = "ok"

\* room for one more engine object
CanSpawn == Objects + importing < MaxProc

\* initEngine without its `if (!stockfish)` test
initEngine_NoHandleTest(f) ==
  /\ IF ~doesExist(f) THEN
       /\ UNCHANGED importing
       /\ last' = [Step("initEngine", "notFound", "", "", <<>>) EXCEPT !.file = f]
     ELSE IF ~isExecutable(f) THEN
       /\ UNCHANGED importing
       /\ last' = [Step("initEngine", "notExecutable", "", "", <<>>)
                     EXCEPT !.file = f]
     ELSE
       /\ CanSpawn
       /\ importing' = importing + 1
       /\ last' = [Step("initEngine", "none", "", "", <<>>) EXCEPT !.file = f]
  /\ UNCHANGED <<stockfish, s_analysisResult, booting, detached>>

\* f: what fs.access finds for the engine executable at this call
\* initEngine without doesExist / isExecutable
initEngine_NoPreflight(f) ==
  /\ IF Truthy(stockfish) THEN
       /\ UNCHANGED importing
       /\ last' = [Step("initEngine", "alreadyInitialized", "", "", <<>>)
                     EXCEPT !.file = f]
     ELSE
       /\ CanSpawn
       /\ importing' = importing + 1
       /\ last' = [Step("initEngine", "none", "", "", <<>>) EXCEPT !.file = f]
  /\ UNCHANGED <<stockfish, s_analysisResult, booting, detached>>

initEngine(f) ==
  /\ IF ~doesExist(f) THEN
       /\ UNCHANGED importing
       /\ last' = [Step("initEngine", "notFound", "", "", <<>>) EXCEPT !.file = f]
     ELSE IF ~isExecutable(f) THEN
       /\ UNCHANGED importing
       /\ last' = [Step("initEngine", "notExecutable", "", "", <<>>)
                     EXCEPT !.file = f]
     ELSE IF Truthy(stockfish) THEN
       /\ UNCHANGED importing
       /\ last' = [Step("initEngine", "alreadyInitialized", "", "", <<>>)
                     EXCEPT !.file = f]
     ELSE
       \* await initLoggingEngine()
       /\ CanSpawn
       /\ importing' = importing + 1
       /\ last' = [Step("initEngine", "none", "", "", <<>>) EXCEPT !.file = f]
  /\ UNCHANGED <<stockfish, s_analysisResult, booting, detached>>

\* LoggingEngine.start: new LoggingEngine(...); await engine.uci()
start ==
  /\ importing > 0
  /\ importing' = importing - 1
  /\ booting' = booting + 1
  /\ last' = Step("start", "none", "", "new", <<Cmd("uci")>>)
  /\ UNCHANGED <<stockfish, s_analysisResult, detached>>

\* variant: the response is given once uciok has come, the ready check is
\* written but not awaited
initUciok_NoReadyCheck ==
  /\ booting > 0
  /\ booting' = booting - 1
  /\ stockfish' = send(NewEngine, <<InitialPosition, Cmd("isready")>>)
  /\ detached' = IF Truthy(stockfish) THEN Add(detached, stockfish) ELSE detached
  /\ last' = [Step("initUciok", "initialized", "", "handle", <<InitialPosition, Cmd("isready")>>)
                EXCEPT !.orphans = IF Truthy(stockfish) /\ ~Finishing(stockfish) THEN Orphans(stockfish) \ {"init"} ELSE {}]
  /\ UNCHANGED <<s_analysisResult, importing>>

\* uciok arrives: stockfish = engine; stockfish.position(); stockfish.isready()
initUciok ==
  /\ booting > 0
  /\ booting' = booting - 1
  /\ stockfish' = [send(NewEngine, <<InitialPosition, Cmd("isready")>>)
                     EXCEPT !.init = "readyok"]
  /\ detached' = IF Truthy(stockfish) THEN Add(detached, stockfish) ELSE detached
  /\ last' = [Step("initUciok", "none", "", "handle",
                   <<InitialPosition, Cmd("isready")>>)
                EXCEPT !.orphans = IF Truthy(stockfish) /\ ~Finishing(stockfish)
                                   THEN Orphans(stockfish) \ {"init"} ELSE {}]
  /\ UNCHANGED <<s_analysisResult, importing>>

\* the engine object x becomes y
Becomes(x, y) ==
  IF x.at = "handle"
  THEN stockfish' = y /\ UNCHANGED detached
  ELSE detached' = Add(Remove(detached, x.e), y) /\ UNCHANGED stockfish

\* readyok arrives: the response of initEngine
initReadyok(x) ==
  /\ x.e.init = "readyok"
  /\ Alive(x.e)
  /\ Becomes(x, [x.e EXCEPT !.init = ""])
  /\ last' = Step("initReadyok", "initialized", "", x.at, <<>>)
  /\ UNCHANGED <<s_analysisResult, importing, booting>>

----------------------------------------------------------------------------
(* quitEngine: POST /engine/quit *)

quitEngine ==
  /\ IF ~Truthy(stockfish) THEN
       /\ last' = Step("quitEngine", "notInitialized", "", "", <<>>)
       /\ UNCHANGED stockfish
     ELSE
       \* await stockfish.quit()
       /\ stockfish' = [send(stockfish, <<Cmd("quit")>>) EXCEPT !.quit = TRUE]
       /\ last' = [Step("quitEngine", "none", "", "handle",
                        Sent(stockfish, <<Cmd("quit")>>))
                     EXCEPT !.orphans = IF Alive(stockfish)
                                        THEN Orphans(stockfish) ELSE {}]
  /\ UNCHANGED <<s_analysisResult, importing, booting, detached>>

\* quitEngine without its `stockfish = null`
quitDone_KeepHandle(x) ==
  /\ x.e.quit
  /\ x.e.st = "exited"
  /\ Becomes(x, [x.e EXCEPT !.quit = FALSE])
  /\ last' = Step("quitDone", "terminated", "", x.at, <<>>)
  /\ UNCHANGED <<s_analysisResult, importing, booting>>

\* the process has exited and the quit() promise resolves: `stockfish = null`
quitDone(x) ==
  /\ x.e.quit
  /\ x.e.st = "exited"
  /\ stockfish' = Null
  /\ detached' =
       IF x.at = "handle" THEN Add(detached, [x.e EXCEPT !.quit = FALSE])
       ELSE LET rest == Add(Remove(detached, x.e), [x.e EXCEPT !.quit = FALSE])
            IN IF Truthy(stockfish) THEN Add(rest, stockfish) ELSE rest
  /\ last' = Step("quitDone", "terminated", "", x.at, <<>>)
  /\ UNCHANGED <<s_analysisResult, importing, booting>>

----------------------------------------------------------------------------
(* stopEngine: POST /engine/stop *)

stopEngine ==
  /\ IF ~Truthy(stockfish) THEN
       /\ last' = Step("stopEngine", "notInitialized", "", "", <<>>)
       /\ UNCHANGED stockfish
     ELSE
       \* await stockfish.stop()
       /\ stockfish' = [send(stockfish, <<Cmd("stop")>>) EXCEPT !.stop = TRUE]
       /\ last' = Step("stopEngine", "none", "", "handle",
                       Sent(stockfish, <<Cmd("stop")>>))
  /\ UNCHANGED <<s_analysisResult, importing, booting, detached>>

\* stopEngine answering without awaiting stockfish.stop()
stopDone_NoWait(x) ==
  /\ x.e.stop
  /\ Becomes(x, [x.e EXCEPT !.stop = FALSE])
  /\ last' = Step("stopDone", "stopped", "", x.at, <<>>)
  /\ UNCHANGED <<s_analysisResult, importing, booting>>

\* the stop() promise resolves once the engine is no longer searching
stopDone(x) ==
  /\ x.e.stop
  /\ x.e.st # "searching"
  /\ Becomes(x, [x.e EXCEPT !.stop = FALSE])
  /\ last' = Step("stopDone", "stopped", "", x.at, <<>>)
  /\ UNCHANGED <<s_analysisResult, importing, booting>>

----------------------------------------------------------------------------
(* makeMove: POST /engine/move/:depth, analyze: POST /engine/analyze *)

\* stockfish.go(options, null, callback): the callback is stored in the
\* engine object, in the place of the one stored before; a callback stored
\* in an engine whose process has exited is never run
go(depth, cb) ==
  IF Alive(stockfish)
  THEN [send(stockfish, <<GoLine(depth)>>) EXCEPT !.goCb = cb]
  ELSE stockfish

\* makeMove calling stockfish.go({ depth }) without a completion callback
makeMove_NoCallback(d) ==
  /\ IF ~Truthy(stockfish) THEN
       /\ last' = Step("makeMove", "notInitialized", "", "", <<>>)
       /\ UNCHANGED <<stockfish, s_analysisResult>>
     ELSE
       LET depth == IF d = 0 THEN DefaultDepth ELSE d IN
       /\ s_analysisResult' = ""
       /\ stockfish' = go(depth, NoCb)
       /\ last' = Step("makeMove", "none", "", "handle",
                       Sent(stockfish, <<GoLine(depth)>>))
  /\ UNCHANGED <<importing, booting, detached>>

makeMove(d) ==
  /\ IF ~Truthy(stockfish) THEN
       /\ last' = Step("makeMove", "notInitialized", "", "", <<>>)
       /\ UNCHANGED <<stockfish, s_analysisResult>>
     ELSE
       LET depth == IF d = 0 THEN DefaultDepth ELSE d IN
       /\ s_analysisResult' = ""
       /\ stockfish' = go(depth, "makeMove")
       /\ last' = [Step("makeMove", "none", "", "handle",
                        Sent(stockfish, <<GoLine(depth)>>))
                     EXCEPT !.orphans = IF Alive(stockfish) THEN {}
                                        ELSE {"search"}]
  /\ UNCHANGED <<importing, booting, detached>>

\* no guard: the result is reset, then stockfish.go is dereferenced
\* analyze that leaves the result of the search before in place
analyze_NoReset ==
  /\ IF ~Truthy(stockfish) THEN
       /\ last' = Step("analyze", "typeError", "", "", <<>>)
       /\ UNCHANGED stockfish
     ELSE
       /\ stockfish' = go(Infinite, "analyze")
       /\ last' = [Step("analyze", "none", "", "handle",
                        Sent(stockfish, <<GoLine(Infinite)>>))
                     EXCEPT !.orphans = IF Alive(stockfish) THEN {}
                                        ELSE {"search"}]
  /\ UNCHANGED <<s_analysisResult, importing, booting, detached>>

analyze ==
  /\ s_analysisResult' = ""
  /\ IF ~Truthy(stockfish) THEN
       /\ last' = Step("analyze", "typeError", "", "", <<>>)
       /\ UNCHANGED stockfish
     ELSE
       /\ stockfish' = go(Infinite, "analyze")
       /\ last' = [Step("analyze", "none", "", "handle",
                        Sent(stockfish, <<GoLine(Infinite)>>))
                     EXCEPT !.orphans = IF Alive(stockfish) THEN {}
                                        ELSE {"search"}]
  /\ UNCHANGED <<importing, booting, detached>>

\* an engine object that keeps the completion callback after calling it
bestmove_KeepCallback(x, m) ==
  /\ Finishing(x.e)
  /\ x.e.goCb # NoCb
  /\ Becomes(x, [x.e EXCEPT !.st = "idle", !.infinite = FALSE,
                            !.stopped = FALSE])
  /\ s_analysisResult' = m
  /\ last' = Step("bestmove", "bestMove", m, x.at, <<>>)
  /\ UNCHANGED <<importing, booting>>

\* the completion callback without its `s_analysisResult = result.bestmove`
bestmove_NoRecord(x, m) ==
  /\ Finishing(x.e)
  /\ x.e.goCb # NoCb
  /\ Becomes(x, [x.e EXCEPT !.st = "idle", !.infinite = FALSE,
                            !.stopped = FALSE, !.goCb = NoCb])
  /\ UNCHANGED s_analysisResult
  /\ last' = Step("bestmove", "bestMove", m, x.at, <<>>)
  /\ UNCHANGED <<importing, booting>>

\* the engine reports `bestmove m`: a depth-limited search has finished or a
\* stop was received; the stored completion callback runs and responds
bestmove(x, m) ==
  /\ Finishing(x.e)
  /\ x.e.goCb # NoCb
  /\ Becomes(x, [x.e EXCEPT !.st = "idle", !.infinite = FALSE,
                            !.stopped = FALSE, !.goCb = NoCb])
  /\ s_analysisResult' = m
  /\ last' = Step("bestmove", "bestMove", m, x.at, <<>>)
  /\ UNCHANGED <<importing, booting>>

(* getBestMove: GET /engine/bestmove *)

getBestMove ==
  /\ last' = IF s_analysisResult = ""
             THEN Step("getBestMove", "noResult", "", "", <<>>)
             ELSE Step("getBestMove", "bestMove", s_analysisResult, "", <<>>)
  /\ UNCHANGED <<stockfish, s_analysisResult, importing, booting, detached>>

----------------------------------------------------------------------------
(* setPosition: POST /engine/setposition, setMoves: POST /engine/setmoves/:moves *)

\* setPosition that passes req.body.fen on as it is
setPosition_NoDefault(bodyFen, bodyMoves) ==
  /\ IF ~Truthy(stockfish) THEN
       /\ last' = Step("setPosition", "notInitialized", "", "", <<>>)
       /\ UNCHANGED stockfish
     ELSE
       /\ stockfish' = send(stockfish, <<PositionLine(bodyFen, bodyMoves)>>)
       /\ last' = Step("setPosition", "positionSet", "", "handle",
                       Sent(stockfish, <<PositionLine(bodyFen, bodyMoves)>>))
  /\ UNCHANGED <<s_analysisResult, importing, booting, detached>>

setPosition(bodyFen, bodyMoves) ==
  /\ IF ~Truthy(stockfish) THEN
       /\ last' = Step("setPosition", "notInitialized", "", "", <<>>)
       /\ UNCHANGED stockfish
     ELSE
       LET fen == IF bodyFen = Omitted THEN FENstartposition ELSE bodyFen IN
       /\ stockfish' = send(stockfish, <<PositionLine(fen, bodyMoves)>>)
       /\ last' = Step("setPosition", "positionSet", "", "handle",
                       Sent(stockfish, <<PositionLine(fen, bodyMoves)>>))
  /\ UNCHANGED <<s_analysisResult, importing, booting, detached>>

\* length of one component of the URL parameter
Length(t) ==
  CASE t = "rnbqkbnr/pppppppp/8/8/8/8/PPPPPPPP/RNBQKBNR" -> 43
    [] t = "KQkq" -> 4
    [] t = "e2e4" -> 4
    [] t = "e7e8q" -> 5
    [] t = "e2" -> 2
    [] t = "e2e4e7e5g1f3" -> 12
    [] OTHER -> 1

UrlParams ==
  { <<"rnbqkbnr/pppppppp/8/8/8/8/PPPPPPPP/RNBQKBNR", "w", "KQkq", "-", "0",
      "1", "e2e4">> }

setMoves(components) ==
  /\ LET isFen == Length(components[1]) > 10
         fen == IF isFen THEN components[1] ELSE FENstartposition
         moveList == IF isFen THEN Tail(components) ELSE components
     IN IF ~Truthy(stockfish) THEN
          /\ last' = Step("setMoves", "typeError", "", "", <<>>)
          /\ UNCHANGED stockfish
        ELSE
          /\ stockfish' = send(stockfish, <<PositionLine(fen, moveList)>>)
          /\ last' = Step("setMoves", "received", "", "handle",
                          Sent(stockfish, <<PositionLine(fen, moveList)>>))
  /\ UNCHANGED <<s_analysisResult, importing, booting, detached>>

----------------
(* A quit -> initialize -> use round trip that no other operation overlaps. *)
(* trip follows the operations as they are issued:                         *)
(*   "quit"     a quit has terminated the engine; no init or quit in flight *)
(*   "init"     then initialize was issued (executable in place), running   *)
(*   "ready"    it has responded                                            *)
(*   "used"     then a position or a search was issued                      *)
(*   "refused"  the initialize after the quit was not carried out           *)

HandleInFlight(n, es) ==
  \/ n > 0
  \/ \E x \in es : x.e.init # "" \/ x.e.quit

Trip(t, step, n, es) ==
  IF step.op = "quitDone" THEN
    IF HandleInFlight(n, es) THEN "none" ELSE "quit"
  ELSE IF t = "quit" /\ step.op = "initEngine" THEN
    IF step.file # "ok" THEN "quit"
    ELSE IF step.resp = "none" THEN "init" ELSE "refused"
  ELSE IF t = "quit" /\ step.op = "getBestMove" THEN "quit"
  ELSE IF t = "init" /\ step.op \in {"start", "initUciok"} THEN "init"
  ELSE IF t = "init" /\ step.op = "initReadyok" THEN "ready"
  ELSE IF t = "ready" /\ step.op \in {"setPosition", "setMoves", "makeMove",
                                      "analyze"} THEN "used"
  ELSE "none"

Track ==
  /\ trip' = Trip(trip, last', importing' + booting', Engines')
  /\ UNCHANGED <<known, held, script, clients, conns, timers, feed>>

Next ==
  \/ \E f \in FileStates : initEngine(f) /\ Track
  \/ start /\ Track
  \/ initUciok /\ Track
  \/ \E x \in Engines : initReadyok(x) /\ Track
  \/ quitEngine /\ Track
  \/ \E x \in Engines : quitDone(x) /\ Track
  \/ stopEngine /\ Track
  \/ \E x \in Engines : stopDone(x) /\ Track
  \/ \E d \in DepthParams : makeMove(d) /\ Track
  \/ analyze /\ Track
  \/ \E x \in Engines, m \in BestMoves : bestmove(x, m) /\ Track
  \/ getBestMove /\ Track
  \/ \E f \in BodyFens, ms \in BodyMoves : setPosition(f, ms) /\ Track
  \/ \E c \in UrlParams : setMoves(c) /\ Track

Spec == Init /\ [][Next]_vars

----------------------------------------------------------------------------
(* One client that issues its initialize calls one after the other: no     *)
(* initEngine is called while the engine object of another one is being    *)
(* created.  The searches are followed as the design describes them:       *)
(* known is the move of the last search that resolved on the session's     *)
(* engine, "" once a position was set or an initialize completed after it, *)
(* and "?" where the design leaves open which of the two it is.            *)

Solo == Truthy(stockfish) \/ Objects + importing = 0

Known(k, step) ==
  CASE step.op = "bestmove" ->
         IF step.to = "handle" THEN step.move ELSE "?"
    [] step.op \in {"setPosition", "setMoves"} ->
         IF step.wrote # <<>> THEN "" ELSE k
    [] step.op = "initReadyok" ->
         IF step.to = "handle" /\ k = "?" THEN "" ELSE "?"
    [] step.op = "initEngine" ->
         IF step.resp \in {"notFound", "notExecutable"} THEN k ELSE "?"
    [] step.op \in {"start", "initUciok", "quitEngine", "quitDone"} -> "?"
    [] OTHER -> k

\* a search that resolves sets the move; a startSearch that the session guard
\* does not refuse takes it away
Held(h, step) ==
  CASE step.op = "bestmove" -> step.move
    [] step.op \in {"makeMove", "analyze"} ->
         IF step.resp = "notInitialized" THEN h ELSE ""
    [] OTHER -> h

Follow ==
  /\ trip' = Trip(trip, last', importing' + booting', Engines')
  /\ known' = Known(known, last')
  /\ held' = Held(held, last')
  /\ UNCHANGED <<script, clients, conns, timers, feed>>

NextSession ==
  \/ \E f \in FileStates : Solo /\ initEngine(f) /\ Follow
  \/ start /\ Follow
  \/ initUciok /\ Follow
  \/ \E x \in Engines : initReadyok(x) /\ Follow
  \/ quitEngine /\ Follow
  \/ \E x \in Engines : quitDone(x) /\ Follow
  \/ stopEngine /\ Follow
  \/ \E x \in Engines : stopDone(x) /\ Follow
  \/ \E d \in DepthParams : makeMove(d) /\ Follow
  \/ analyze /\ Follow
  \/ \E x \in Engines, m \in BestMoves : bestmove(x, m) /\ Follow
  \/ getBestMove /\ Follow
  \/ \E f \in BodyFens, ms \in BodyMoves : setPosition(f, ms) /\ Follow
  \/ \E c \in UrlParams : setMoves(c) /\ Follow

SpecSession == Init /\ [][NextSession]_vars

----------------------------------------------------------------------------
(* The depth-limited scenario, played by one client again and again:       *)
(* initialize, setPosition(start, [e2e4, e7e5]), startSearch(depth 10),    *)
(* then nothing but getLastResult; once the move was returned the client   *)
(* may quit and begin anew.  getLastResult may be called at any time, the  *)
(* start position may be given or left out, and an initialize that fails   *)
(* its pre-flight check is tried again.  Other clients may call            *)
(* initialize while the session exists, which starts nothing.              *)

ScenarioMoves == <<"e2e4", "e7e5">>
ScenarioDepth == 10
ReportedMoves == {"e2e4", "e7e8q"}     \* a move of 4 and one of 5 characters

Play(now, then) ==
  /\ trip' = Trip(trip, last', importing' + booting', Engines')
  /\ known' = Known(known, last')
  /\ held' = Held(held, last')
  /\ script' = IF script = now THEN then ELSE script
  /\ UNCHANGED <<clients, conns, timers, feed>>

Issue(now, then) == script = now /\ Play(now, then)

ScenarioInit ==
  \E f \in FileStates :
    initEngine(f) /\ Issue("start", IF isExecutable(f) THEN "init" ELSE "start")
ScenarioPosition ==
  \E f \in BodyFens :
    setPosition(f, ScenarioMoves) /\ Issue("ready", "positioned")
ScenarioSearch == makeMove(ScenarioDepth) /\ Issue("positioned", "searching")
ScenarioQuit == quitEngine /\ Issue("got", "quitting")
ScenarioPoll == getBestMove /\ Play("resolved", "got")
ScenarioOther ==
  \E f \in FileStates : Truthy(stockfish) /\ initEngine(f) /\ Play("", "")

\* what the engine process and the engine object do on their own
ScenarioEngine ==
  \/ start /\ Play("", "")
  \/ initUciok /\ Play("", "")
  \/ \E x \in Engines : initReadyok(x) /\ Play("init", "ready")
  \/ \E x \in Engines, m \in ReportedMoves :
        bestmove(x, m) /\ Play("searching", "resolved")
  \/ \E x \in Engines : quitDone(x) /\ Play("quitting", "start")

NextScenario ==
  \/ ScenarioInit
  \/ ScenarioPosition
  \/ ScenarioSearch
  \/ ScenarioQuit
  \/ ScenarioPoll
  \/ ScenarioOther
  \/ ScenarioEngine

\* the client carries its scenario on, and the engine answers what it is asked
SpecScenario ==
  /\ Init
  /\ [][NextScenario]_vars
  /\ WF_vars(ScenarioInit)
  /\ WF_vars(ScenarioPosition)
  /\ WF_vars(ScenarioSearch)
  /\ WF_vars(ScenarioPoll)
  /\ WF_vars(ScenarioEngine)

----------------------------------------------------------------------------
(* An infinite search and its stop, as one client sees them: analyze on a
   ready engine, then POST /engine/stop, then GET /engine/bestmove *)

\* where the client is in analyze -> stop -> bestmove
Phase(p, step) ==
  CASE step.op = "analyze" ->
         IF step.resp = "none" /\ step.pre.state = "Ready" /\ step.wrote # <<>>
         THEN "infinite" ELSE "start"
    [] step.op = "makeMove" ->
         IF step.resp = "notInitialized" THEN p ELSE "start"
    [] step.op = "stopEngine" ->
         IF p = "infinite" /\ step.resp = "none" THEN "stopping" ELSE p
    [] step.op = "stopDone" ->
         IF p = "stopping" THEN "stopped" ELSE p
    [] OTHER -> p

Watch ==
  /\ trip' = Trip(trip, last', importing' + booting', Engines')
  /\ known' = Known(known, last')
  /\ held' = Held(held, last')
  /\ script' = Phase(script, last')
  /\ UNCHANGED <<clients, conns, timers, feed>>

NextStop ==
  \/ \E f \in FileStates : Solo /\ initEngine(f) /\ Watch
  \/ start /\ Watch
  \/ initUciok /\ Watch
  \/ \E x \in Engines : initReadyok(x) /\ Watch
  \/ quitEngine /\ Watch
  \/ \E x \in Engines : quitDone(x) /\ Watch
  \/ stopEngine /\ Watch
  \/ \E x \in Engines : stopDone(x) /\ Watch
  \/ \E d \in DepthParams : makeMove(d) /\ Watch
  \/ analyze /\ Watch
  \/ \E x \in Engines, m \in ReportedMoves : bestmove(x, m) /\ Watch
  \/ getBestMove /\ Watch
  \/ \E f \in BodyFens, ms \in BodyMoves : setPosition(f, ms) /\ Watch
  \/ \E c \in UrlParams : setMoves(c) /\ Watch

SpecStop == Init /\ [][NextStop]_vars

\* the engine answers a stop with its bestmove line, and the promise of
\* stop() resolves when it has
StopAnswers ==
  \/ \E x \in Engines, m \in ReportedMoves : bestmove(x, m) /\ Watch
  \/ \E x \in Engines : stopDone(x) /\ Watch

SpecStopFair == SpecStop /\ WF_vars(StopAnswers)

----------------------------------------------------------------------------
(* The engine process dying on its own: its pipes close, and what is written
   to it afterwards fails inside LoggingEngine.send *)

\* the process behind the handle exits without having been asked to
crash ==
  /\ Truthy(stockfish)
  /\ Alive(stockfish)
  /\ stockfish' = Exited(stockfish)
  /\ last' = [Step("crash", "none", "", "handle", <<>>)
                EXCEPT !.orphans = Orphans(stockfish)]
  /\ UNCHANGED <<s_analysisResult, importing, booting, detached>>

NextCrash ==
  \/ \E f \in FileStates : Solo /\ initEngine(f) /\ Follow
  \/ start /\ Follow
  \/ initUciok /\ Follow
  \/ \E x \in Engines : initReadyok(x) /\ Follow
  \/ quitEngine /\ Follow
  \/ \E x \in Engines : quitDone(x) /\ Follow
  \/ stopEngine /\ Follow
  \/ \E x \in Engines : stopDone(x) /\ Follow
  \/ \E d \in DepthParams : makeMove(d) /\ Follow
  \/ analyze /\ Follow
  \/ \E x \in Engines, m \in BestMoves : bestmove(x, m) /\ Follow
  \/ getBestMove /\ Follow
  \/ \E f \in BodyFens, ms \in BodyMoves : setPosition(f, ms) /\ Follow
  \/ \E c \in UrlParams : setMoves(c) /\ Follow
  \/ crash /\ Follow

SpecCrash == Init /\ [][NextCrash]_vars

----------------------------------------------------------------------------
(* The event feed: GET /sse registers a client, every command sent and
   every line received is written to the response of every client *)

ClockReadings == 1..2     \* values of Date.now() when a client connects

\* sse that writes the position of the engine to the client it registers
sse_Replay(t) ==
  /\ Len(conns) < MaxClients
  /\ \A c \in 1..Len(conns) : conns[c] <= t
  /\ clients' = Append(clients, [id |-> t, ok |-> TRUE])
  /\ conns' = Append(conns, t)
  /\ last' = Step("sse", "none", "", "", <<>>)
  /\ feed' = [NoFeed EXCEPT
                !.op = "sse", !.before = clients,
                !.writes = IF Truthy(stockfish)
                           THEN <<[to |-> Len(clients) + 1, dir |-> ">>",
                                   text |-> "position"]>>
                           ELSE <<>>]
  /\ UNCHANGED <<stockfish, s_analysisResult, importing, booting, detached>>

\* sse: clientId = Date.now(); clients.push(newClient); nothing but the
\* headers is written to the response
sse(t) ==
  /\ Len(conns) < MaxClients
  /\ \A c \in 1..Len(conns) : conns[c] <= t
  /\ clients' = Append(clients, [id |-> t, ok |-> TRUE])
  /\ conns' = Append(conns, t)
  /\ last' = Step("sse", "none", "", "", <<>>)
  /\ feed' = [NoFeed EXCEPT !.op = "sse", !.before = clients]
  /\ UNCHANGED <<stockfish, s_analysisResult, importing, booting, detached>>

\* the sequence q without its c-th element
Without(q, c) == [k \in 1..(Len(q) - 1) |-> IF k < c THEN q[k] ELSE q[k + 1]]

\* a close handler that removes by position: clients.splice(index, 1) with
\* the index the client had when it was registered
close_Splice(c) ==
  /\ clients' = IF c <= Len(clients) THEN Without(clients, c) ELSE clients
  /\ conns' = Without(conns, c)
  /\ last' = Step("close", "none", "", "", <<>>)
  /\ feed' = [NoFeed EXCEPT !.op = "close", !.before = clients,
                            !.closed = conns[c]]
  /\ UNCHANGED <<stockfish, s_analysisResult, importing, booting, detached>>

\* a close handler that ends the connection and leaves the client registered
close_KeepRegistered(c) ==
  /\ clients' = clients
  /\ conns' = Without(conns, c)
  /\ last' = Step("close", "none", "", "", <<>>)
  /\ feed' = [NoFeed EXCEPT !.op = "close", !.before = clients,
                            !.closed = conns[c]]
  /\ UNCHANGED <<stockfish, s_analysisResult, importing, booting, detached>>

\* req.on("close") of the c-th open connection:
\* clients = clients.filter(client => client.id !== clientId)
close(c) ==
  /\ clients' = SelectSeq(clients, LAMBDA e : e.id # conns[c])
  /\ conns' = Without(conns, c)
  /\ last' = Step("close", "none", "", "", <<>>)
  /\ feed' = [NoFeed EXCEPT !.op = "close", !.before = clients,
                            !.closed = conns[c]]
  /\ UNCHANGED <<stockfish, s_analysisResult, importing, booting, detached>>

\* the channel of client i fails: from now on client.res.write throws; taken
\* while no initialize is under way
channelFails(i) ==
  /\ clients[i].ok
  /\ importing + booting = 0
  /\ \A x \in Engines : x.e.init = ""
  /\ clients' = [clients EXCEPT ![i].ok = FALSE]
  /\ last' = Step("channelFails", "none", "", "", <<>>)
  /\ feed' = NoFeed
  /\ UNCHANGED <<stockfish, s_analysisResult, importing, booting, detached,
                 conns>>

\* LoggingEngine.parse: onReceive(line) throws, super.parse(line) is not
\* reached: the search of the process is over, its callback is never called
bestmoveLost(x) ==
  /\ Throws
  /\ Finishing(x.e)
  /\ x.e.goCb # NoCb
  /\ Becomes(x, [x.e EXCEPT !.st = "idle", !.infinite = FALSE,
                            !.stopped = FALSE])
  /\ last' = Step("bestmove", "lost", "", x.at, <<>>)
  /\ UNCHANGED <<s_analysisResult, importing, booting>>

\* the steps in which LoggingEngine.send or LoggingEngine.parse runs
Published(step) ==
  \/ step.op \in {"start", "initUciok", "initReadyok", "bestmove"}
  \/ /\ step.op \in {"setPosition", "setMoves", "makeMove", "analyze",
                      "stopEngine", "quitEngine"}
     /\ step.to = "handle"

\* the commands the step hands to LoggingEngine.send, in order
Asked(step) ==
  CASE step.op = "start" -> <<"uci">>
    [] step.op = "initUciok" -> <<"position", "isready">>
    [] step.op \in {"setPosition", "setMoves"} /\ step.to = "handle" ->
         <<"position">>
    [] step.op \in {"makeMove", "analyze"} /\ step.to = "handle" -> <<"go">>
    [] step.op = "stopEngine" /\ step.to = "handle" -> <<"stop">>
    [] step.op = "quitEngine" /\ step.to = "handle" -> <<"quit">>
    [] OTHER -> <<>>

\* the lines of the engine the step hands to LoggingEngine.parse
Heard(step) ==
  CASE step.op = "initUciok" -> <<"uciok">>
    [] step.op = "initReadyok" -> <<"readyok">>
    [] step.op = "bestmove" -> <<"bestmove">>
    [] OTHER -> <<>>

Mark(dir, texts) == [k \in 1..Len(texts) |-> [dir |-> dir, text |-> texts[k]]]

\* a feed that mirrors the lines that end a search only
Records_TerminalOnly(step) ==
  IF step.op = "bestmove" THEN Mark("<<", Heard(step)) ELSE <<>>

\* a feed that reports the commands of a step before the line that the
\* step has parsed
Records_CommandsFirst(step) ==
  Mark(">>", Asked(step)) \o Mark("<<", Heard(step))
    \o (IF step.op = "bestmove" /\ step.resp = "bestMove"
        THEN Mark(">>", <<step.move>>) ELSE <<>>)

\* what is handed to sendLogUpdateReceived (`<<`) and sendLogUpdateSent
\* (`>>`) in the step: the line parsed, the commands sent, and in the go
\* callback sendLogUpdateSent(result.bestmove)
Records(step) ==
  Mark("<<", Heard(step)) \o Mark(">>", Asked(step))
    \o (IF step.op = "bestmove" /\ step.resp = "bestMove"
        THEN Mark(">>", <<step.move>>) ELSE <<>>)

\* the calls of client.res.write that return: clients.forEach for each record
\* in turn, up to the first call that throws
Writes(recs) ==
  LET n == IF Throws THEN Cardinality(Got) ELSE Len(clients)
      m == IF Throws /\ recs # <<>> THEN 1 ELSE Len(recs)
  IN [k \in 1..(m * n) |->
        [to |-> ((k - 1) % n) + 1,
         dir |-> recs[((k - 1) \div n) + 1].dir,
         text |-> recs[((k - 1) \div n) + 1].text]]

\* sendLogUpdateSent / sendLogUpdateReceived over the clients of the moment
Deliver ==
  /\ feed' = IF Published(last')
             THEN [op |-> last'.op, got |-> Got, threw |-> Throws,
                   writes |-> Writes(Records(last')), before |-> clients,
                   closed |-> 0]
             ELSE NoFeed
  /\ UNCHANGED <<clients, conns, timers, trip, known, held, script>>

Aside == UNCHANGED <<trip, known, held, script, timers>>

NextFeed ==
  \/ \E t \in ClockReadings : sse(t) /\ Aside
  \/ \E c \in 1..Len(conns) : close(c) /\ Aside
  \/ \E i \in 1..Len(clients) : channelFails(i) /\ Aside
  \/ \E f \in FileStates :
        Solo /\ (Truthy(stockfish) \/ ~Throws) /\ initEngine(f) /\ Deliver
  \/ start /\ Deliver
  \/ initUciok /\ Deliver
  \/ \E x \in Engines : initReadyok(x) /\ Deliver
  \/ quitEngine /\ Deliver
  \/ \E x \in Engines : quitDone(x) /\ Deliver
  \/ stopEngine /\ Deliver
  \/ \E x \in Engines : stopDone(x) /\ Deliver
  \/ \E d \in DepthParams : makeMove(d) /\ Deliver
  \/ analyze /\ Deliver
  \/ \E x \in Engines, m \in BestMoves : ~Throws /\ bestmove(x, m) /\ Deliver
  \/ \E x \in Engines : bestmoveLost(x) /\ Deliver
  \/ getBestMove /\ Deliver
  \/ \E f \in BodyFens, ms \in BodyMoves : setPosition(f, ms) /\ Deliver
  \/ \E c \in UrlParams : setMoves(c) /\ Deliver

SpecFeed == Init /\ [][NextFeed]_vars

----------------------------------------------------------------------------
(* The position requests of one client, over more inputs: the request that
   was made is kept beside the step it led to *)

EndgameFen == "8/8/8/8/8/8/8/k6K w - - 0 1"
PositionFens == {Omitted, FENstartposition, EndgameFen}
PositionMoves == {<<>>, <<"e2e4">>, <<"e2e4", "e7e5">>}

\* the URL parameter of setMoves as the client means it: the six fields of
\* a FEN or none, then the moves; decodeURIComponent(...).split(' ') makes
\* one component of each field and each move
FenFields ==
  <<"rnbqkbnr/pppppppp/8/8/8/8/PPPPPPPP/RNBQKBNR", "w", "KQkq", "-", "0", "1">>
MoveRequests ==
  { [fen |-> f, moves |-> ms] :
      f \in {<<>>, FenFields},
      ms \in {<<"e2e4">>, <<"e2", "e2e4">>, <<"e2e4", "e7e8q">>,
              <<"e2e4e7e5g1f3">>} }

\* setMoves: the moves logged as invalid
invalidMoves(components) ==
  LET moveList == IF Length(components[1]) > 10 THEN Tail(components)
                  ELSE components
  IN SelectSeq(moveList, LAMBDA m : Length(m) < 4 \/ Length(m) > 5)

Asks(request) ==
  /\ script' = request
  /\ UNCHANGED <<trip, known, held, clients, conns, timers, feed>>

Quiet == UNCHANGED <<trip, known, held, script, clients, conns, timers, feed>>

NextPosition ==
  \/ \E f \in FileStates : Solo /\ initEngine(f) /\ Quiet
  \/ start /\ Quiet
  \/ initUciok /\ Quiet
  \/ \E x \in Engines : initReadyok(x) /\ Quiet
  \/ quitEngine /\ Quiet
  \/ \E x \in Engines : quitDone(x) /\ Quiet
  \/ \E f \in PositionFens, ms \in PositionMoves :
        setPosition(f, ms) /\ Asks([fen |-> f, moves |-> ms])
  \/ \E r \in MoveRequests : setMoves(r.fen \o r.moves) /\ Asks(r)

SpecPosition == Init /\ [][NextPosition]_vars

----------------------------------------------------------------------------
(* The interval that sse sets for each connection. *)

\* sse: setInterval(() => console.log(...), 5000); the id it returns is not
\* kept, and no handler calls clearInterval
setInterval ==
  /\ timers < MaxTimers
  /\ timers' = timers + 1
  /\ UNCHANGED <<trip, known, held, script>>

NextTimers ==
  \/ \E t \in ClockReadings : sse(t) /\ setInterval
  \/ \E c \in 1..Len(conns) : close(c) /\ Aside
  \/ \E i \in 1..Len(clients) : channelFails(i) /\ Aside
  \/ \E f \in FileStates :
        Solo /\ (Truthy(stockfish) \/ ~Throws) /\ initEngine(f) /\ Deliver
  \/ start /\ Deliver
  \/ initUciok /\ Deliver
  \/ \E x \in Engines : initReadyok(x) /\ Deliver
  \/ quitEngine /\ Deliver
  \/ \E x \in Engines : quitDone(x) /\ Deliver

SpecTimers == Init /\ [][NextTimers]_vars

----------------------------------------------------------------------------
(* The error kinds of the design, as the handlers' responses express them *)

ErrorKind(resp) ==
  CASE resp = "notFound"       -> "EngineNotFound"
    [] resp = "notExecutable"  -> "EngineNotExecutable"
    [] resp = "notInitialized" -> "EngineNotInitialized"
    [] resp = "noResult"       -> "NoResultAvailable"
    [] resp = "typeError"      -> "TypeError"
    [] OTHER                   -> "none"

StartSearch == last.op \in {"makeMove", "analyze"}
SetPositionOp == last.op \in {"setPosition", "setMoves"}
NoSession == last.pre.state \in {"Uninitialized", "Terminated"}


\* the step changed nothing of the session
NoOp ==
  /\ last.wrote = <<>>
  /\ State = last.pre.state
  /\ stockfish = last.pre.stockfish
  /\ s_analysisResult = last.pre.result
  /\ LiveProcs = last.pre.live
  /\ importing = last.pre.importing

----------------------------------------------------------------------------
(* C1: a startSearch (makeMove or analyze) issued while an earlier search  *)
(* has not been resolved fails with EngineBusy, writes no second go        *)
(* command and does not replace the pending search.                        *)
C1_BusySearchRejected ==
  (StartSearch /\ last.pre.stockfish.goCb # NoCb) =>
     /\ ErrorKind(last.resp) = "EngineBusy"
     /\ last.wrote = <<>>
     /\ PendingSearch = last.pre.stockfish.goCb

(* C2: under every interleaving of initialize requests at most one engine  *)
(* process (and so at most one engine session) exists at a time.           *)
C2_SingleEngine == LiveProcs <= 1

(* C3 as stated: initialize on a Ready or Searching session returns the    *)
(* 'already initialized' success, never an error, and is a no-op.          *)
C3_InitIdempotentAlways ==
  (last.op = "initEngine" /\ last.pre.state \in {"Ready", "Searching"}) =>
     /\ last.resp = "alreadyInitialized"
     /\ NoOp

(* C3 amended: initialize on a Ready or Searching session is a no-op in    *)
(* every case; it returns the 'already initialized' success whenever the   *)
(* executable passes the pre-flight check, and the pre-flight error (not   *)
(* found / not executable) when it does not.                               *)
C3_InitIdempotent ==
  (last.op = "initEngine" /\ last.pre.state \in {"Ready", "Searching"}) =>
     /\ NoOp
     /\ last.file = "ok" => last.resp = "alreadyInitialized"
     /\ last.file = "missing" => last.resp = "notFound"
     /\ last.file = "notexec" => last.resp = "notExecutable"

C3_Witness ==
  /\ last.op = "initEngine"
  /\ last.pre.state = "Searching"
  /\ last.resp = "alreadyInitialized"
  /\ LiveProcs = 1

(* C4: a quit followed by an initialize (executable in place, no other     *)
(* operation overlapping) is never refused; it spawns a fresh process,     *)
(* writes uci, then the initial position and isready to it, responds       *)
(* 'initialized' with the session Ready on the fresh process, and a        *)
(* position or search issued next is accepted and written to it.           *)
C4_QuitThenInit ==
  /\ trip # "refused"
  /\ (trip = "init" /\ last.op = "initEngine") =>
        last.resp = "none" /\ last.pre.stockfish = Null
  /\ (trip = "init" /\ last.op = "start") =>
        /\ LiveProcs = last.pre.live + 1
        /\ last.wrote = <<Cmd("uci")>>
  /\ (trip = "init" /\ last.op = "initUciok") =>
        /\ last.wrote = <<InitialPosition, Cmd("isready")>>
        /\ LiveProcs = last.pre.live
        /\ stockfish = [NewEngine EXCEPT !.init = "readyok"]
  /\ trip = "ready" =>
        /\ last.resp = "initialized"
        /\ last.to = "handle"
        /\ State = "Ready"
  /\ trip = "used" =>
        /\ ErrorKind(last.resp) = "none"
        /\ Len(last.wrote) = 1
        /\ last.to = "handle"
        /\ last.wrote[1].cmd = IF StartSearch THEN "go" ELSE "position"

C4_Witness == trip = "used" /\ StartSearch /\ PendingSearch # NoCb

(* C5: quit is accepted in every session state: it never fails because of  *)
(* the state it is called in, and it ends with the session Terminated and  *)
(* the engine handle released.                                             *)
C5_QuitAnyState ==
  /\ last.op = "quitEngine" => ErrorKind(last.resp) = "none"
  /\ last.op = "quitDone" => State = "Terminated" /\ ~Truthy(stockfish)

(* C6: a startSearch attempted while the session is Searching changes      *)
(* neither the pending search nor the stored last result.                  *)
C6_BusySearchFrame ==
  (StartSearch /\ last.pre.state = "Searching") =>
     /\ PendingSearch = last.pre.stockfish.goCb
     /\ s_analysisResult = last.pre.result

(* C7: setPosition and setMoves in state Searching fail with EngineBusy,   *)
(* write no position command and leave the stored position unchanged.      *)
C7_SetPositionBusy ==
  (SetPositionOp /\ last.pre.state = "Searching") =>
     /\ ErrorKind(last.resp) = "EngineBusy"
     /\ last.wrote = <<>>
     /\ stockfish.fen = last.pre.stockfish.fen
     /\ stockfish.moves = last.pre.stockfish.moves

(* C8: with no session (Uninitialized or Terminated) setPosition,          *)
(* setMoves, makeMove, analyze and stopSearch each fail with               *)
(* EngineNotInitialized, found by a guard, and write nothing.              *)
C8_NotInitialized ==
  ((SetPositionOp \/ StartSearch \/ last.op = "stopEngine") /\ NoSession) =>
     /\ ErrorKind(last.resp) = "EngineNotInitialized"
     /\ last.wrote = <<>>

(* C9: stopSearch in state Ready fails with NoActiveSearch, writes no stop *)
(* command and leaves the session state and the last result unchanged.     *)
C9_StopWithoutSearch ==
  (last.op = "stopEngine" /\ last.pre.state = "Ready") =>
     /\ ErrorKind(last.resp) = "NoActiveSearch"
     /\ last.wrote = <<>>
     /\ State = "Ready"
     /\ s_analysisResult = last.pre.result

(* C10: startSearch is non-blocking: once the go command is written the    *)
(* request has its response, without waiting for the engine's best move.   *)
C10_SearchNonBlocking ==
  (StartSearch /\ last.wrote # <<>>) => last.resp # "none"

C12_NoStaleResult ==
  (last.op = "getBestMove" /\ known = "") =>
     ErrorKind(last.resp) = "NoResultAvailable"

(* C13: when the engine's best-move line arrives while a search is pending *)
(* on a Searching session (its initialize completed), the search is        *)
(* completed with that move: the callback answers with the move, no        *)
(* search is pending any more, the session is Ready, and the move is the   *)
(* last result; in Ready a startSearch or a setPosition is accepted and    *)
(* written to the engine.                                                  *)
C13_NaturalCompletion ==
  /\ (/\ last.op = "bestmove"
      /\ last.to = "handle"
      /\ last.pre.state = "Searching"
      /\ last.pre.stockfish.init = "") =>
        /\ last.resp = "bestMove"
        /\ last.move \in BestMoves
        /\ PendingSearch = NoCb
        /\ State = "Ready"
        /\ s_analysisResult = last.move
  /\ ((StartSearch \/ SetPositionOp) /\ last.pre.state = "Ready") =>
        /\ ErrorKind(last.resp) = "none"
        /\ Len(last.wrote) = 1
        /\ last.to = "handle"

C13_Witness ==
  /\ last.op = "bestmove"
  /\ last.to = "handle"
  /\ last.pre.state = "Searching"
  /\ last.pre.stockfish.init = ""
  /\ State = "Ready"
  /\ s_analysisResult = "e2e4"

(* C14: in the depth-limited scenario, with an engine that eventually      *)
(* reports its best move, getLastResult eventually returns that move, a    *)
(* string of 4 or 5 characters, and from the resolution on every           *)
(* getLastResult returns it as long as the client issues nothing else.     *)
C14_ScenarioResult ==
  /\ (script = "searching") ~>
        (/\ last.op = "getBestMove"
         /\ last.resp = "bestMove"
         /\ last.move = held
         /\ Length(last.move) \in {4, 5})
  /\ []((script \in {"resolved", "got"} /\ last.op = "getBestMove") =>
          (last.resp = "bestMove" /\ last.move = held /\ held # ""))

C14_Witness ==
  /\ script = "got"
  /\ last.op = "getBestMove"
  /\ last.move = "e7e8q"
  /\ stockfish.moves = ScenarioMoves

\* C15: after analyze (an infinite search) on a ready engine followed by
\* stopEngine, getBestMove either returns the move the engine reported since
\* that analyze or answers NoResultAvailable because none was reported; the
\* two answers differ, the answer to the stop carries no move, and a move
\* reported since that analyze comes from the engine of the handle.
C15_StopOutcome ==
  /\ (script \in {"stopping", "stopped"} /\ last.op = "getBestMove") =>
        \/ last.resp = "bestMove" /\ held # "" /\ last.move = held
        \/ ErrorKind(last.resp) = "NoResultAvailable" /\ held = ""
                                                     /\ last.move = ""
  /\ last.op \in {"stopEngine", "stopDone"} => last.move = ""
  /\ (script \in {"infinite", "stopping", "stopped"} /\ last.op = "bestmove") =>
        last.to = "handle"

C15_Witness ==
  /\ script = "stopped"
  /\ last.op = "getBestMove"
  /\ last.resp = "bestMove"
  /\ last.move = "e7e8q"

C15_WitnessNoMove ==
  /\ script = "stopped"
  /\ last.op = "getBestMove"
  /\ last.resp = "noResult"

\* C16: a search is created only when the one before it has been resolved,
\* and a search that is created has a completion that can still run: no
\* startSearch that writes go finds a completion callback still pending, and
\* none leaves its own callback in an engine that will never call it.
C16_SearchResolvedOnce ==
  (StartSearch /\ last.resp = "none") =>
     /\ last.wrote # <<>> => last.pre.stockfish.goCb = NoCb
     /\ "search" \notin last.orphans

\* an initialize, stop or quit that has been accepted and has not answered yet
InProgress(p) ==
  \/ p.importing > 0
  \/ p.stockfish.init # ""
  \/ p.stockfish.stop
  \/ p.stockfish.quit

StateChanging ==
  last.op \in {"initEngine", "setPosition", "setMoves", "makeMove", "analyze",
               "stopEngine", "quitEngine"}

\* C17: a state-changing operation that arrives while an initialize, a stop
\* or a quit is still in progress fails with EngineBusy and writes no line
\* to the engine.
C17_GateFailFast ==
  (StateChanging /\ InProgress(last.pre)) =>
     /\ ErrorKind(last.resp) = "EngineBusy"
     /\ last.wrote = <<>>

\* a handler that writes to the engine of the handle after that engine's
\* process has exited without a quit having been asked for
WriteToCrashed ==
  /\ last.op \in {"setPosition", "setMoves", "makeMove", "analyze",
                  "stopEngine", "quitEngine"}
  /\ last.pre.stockfish.st = "exited"
  /\ ~last.pre.stockfish.quit

\* C18: a control operation whose write to the engine process fails reports
\* EngineCrashed, leaves the session Terminated with the handle released, and
\* every later operation on the released handle answers EngineNotInitialized.
C18_CrashSurfaced ==
  WriteToCrashed =>
     /\ ErrorKind(last.resp) = "EngineCrashed"
     /\ ~Truthy(stockfish)
     /\ State = "Terminated"

\* a handler that calls send on the live engine of the handle
WritesCommand ==
  /\ last.op \in {"setPosition", "setMoves", "makeMove", "analyze",
                  "stopEngine", "quitEngine"}
  /\ last.to = "handle"
  /\ Alive(last.pre.stockfish)

\* C19: when the write to a client's response throws while a line is
\* delivered, the command being sent is still written to the engine, and a
\* bestmove line received is still parsed and resolves the pending search.
C19_DeliveryFailureContained ==
  feed.threw =>
     /\ WritesCommand => last.wrote # <<>>
     /\ last.op = "bestmove" =>
           /\ last.resp = "bestMove"
           /\ s_analysisResult = last.move
           /\ last.to = "handle" => PendingSearch = NoCb

\* C20: when the write to one client's response throws, every client whose
\* channel works has been written the line and is still registered, and the
\* client whose channel failed is no longer registered.
C20_DeliveryIsolated ==
  feed.threw =>
     /\ \A i \in 1..Len(clients) : clients[i].ok => i \in feed.got
     /\ \A i \in 1..Len(clients) : clients[i].ok

\* the lines the step read from the engine and wrote to it, in that order
Produced(step) ==
  Mark("<<", Heard(step))
    \o [k \in 1..Len(step.wrote) |-> [dir |-> ">>", text |-> step.wrote[k].cmd]]

\* what has been written to the response of client i in the step
DeliveredTo(i) ==
  LET mine == SelectSeq(feed.writes, LAMBDA w : w.to = i)
  IN [k \in 1..Len(mine) |-> [dir |-> mine[k].dir, text |-> mine[k].text]]

Range(q) == {q[k] : k \in 1..Len(q)}

\* C21: every line read from the engine or written to it in a step is
\* written to the response of every client registered at that moment (all
\* channels working): the handshake lines, the position and go commands as
\* well as the bestmove line.
C21_EveryLineMirrored ==
  (Produced(last) # <<>> /\ ~feed.threw) =>
     /\ feed.op = last.op
     /\ feed.before = clients
     /\ \A i \in 1..Len(clients) :
           Range(Produced(last)) \subseteq Range(DeliveredTo(i))

C21_Witness ==
  /\ last.op = "makeMove"
  /\ feed.op = "makeMove"
  /\ Len(feed.before) = 2
  /\ ~feed.threw
  /\ stockfish.moves = <<"e2e4">>
  /\ \A i \in {1, 2} : [dir |-> ">>", text |-> "go"] \in Range(DeliveredTo(i))

IsPrefix(p, q) == Len(p) <= Len(q) /\ \A k \in 1..Len(p) : p[k] = q[k]

\* the records written to client i in the step that are lines of the step
LinesTo(i) ==
  SelectSeq(DeliveredTo(i), LAMBDA r : r \in Range(Produced(last)))

\* C22: the lines of a step reach each client in the order in which they
\* were read from and written to the engine, sent and received lines in
\* their mutual order, and any two clients are written the same sequence.
C22_DeliveryOrder ==
  feed.op = last.op =>
     /\ \A i \in 1..Len(clients) : IsPrefix(LinesTo(i), Produced(last))
     /\ ~feed.threw =>
           \A i \in 1..Len(clients) : LinesTo(i) = Produced(last)
     /\ \A i, j \in feed.got : DeliveredTo(i) = DeliveredTo(j)

C22_Witness ==
  /\ last.op = "initUciok"
  /\ Len(clients) = 2
  /\ DeliveredTo(2) = <<[dir |-> "<<", text |-> "uciok"],
                        [dir |-> ">>", text |-> "position"],
                        [dir |-> ">>", text |-> "isready"]>>
  /\ DeliveredTo(1) = DeliveredTo(2)

\* C23: the close of one connection removes that client only: one element
\* at most leaves the clients array, and every connection that is still open
\* and was registered is still registered afterwards.
C23_CloseRemovesOne ==
  feed.op = "close" =>
     /\ Len(clients) >= Len(feed.before) - 1
     /\ Len(feed.before) = Len(conns) + 1 => Len(clients) = Len(conns)

\* C24: registering a client writes no line to it, and a step writes to
\* the clients registered when it began the records of that step only.
C24_NoReplay ==
  /\ feed.op = "sse" =>
        /\ feed.writes = <<>>
        /\ Len(clients) = Len(feed.before) + 1
  /\ \A k \in 1..Len(feed.writes) :
        /\ feed.writes[k].to \in 1..Len(feed.before)
        /\ [dir |-> feed.writes[k].dir, text |-> feed.writes[k].text]
              \in Range(Records(last))

C24_Witness ==
  /\ last.op = "sse"
  /\ feed.op = "sse"
  /\ State = "Ready"
  /\ stockfish.moves = <<"e2e4">>
  /\ feed.before # <<>>
  /\ feed.writes = <<>>

\* C25: the close handler leaves the clients array as it is when no client
\* has the closing id, and otherwise keeps every client of another id in
\* place; no close runs inside a delivery: the step that delivers writes
\* each of its records once to every client and leaves the array as it was.
C25_CloseIdempotent ==
  /\ feed.op = "close" =>
        /\ clients = SelectSeq(feed.before, LAMBDA e : e.id # feed.closed)
        /\ (\A k \in 1..Len(feed.before) : feed.before[k].id # feed.closed)
              => clients = feed.before
  /\ (feed.op = last.op /\ feed.op \notin {"sse", "close"}) =>
        /\ clients = feed.before
        /\ ~feed.threw =>
              \A i \in 1..Len(clients) :
                 Len(DeliveredTo(i)) = Len(Records(last))

C25_Witness ==
  /\ feed.op = "close"
  /\ feed.before # <<>>
  /\ \A k \in 1..Len(feed.before) : feed.before[k].id # feed.closed
  /\ clients = feed.before

\* C26: every record written to a client carries the direction of a line
\* of the step and that line: `>>` with a command that was written to the
\* engine, `<<` with a line that was read from it, and nothing else.
C26_DirectionMarker ==
  \A k \in 1..Len(feed.writes) :
     [dir |-> feed.writes[k].dir, text |-> feed.writes[k].text]
        \in Range(Produced(last))

C28_PreflightFatal ==
  (last.op = "initEngine" /\ last.file # "ok") =>
     /\ ErrorKind(last.resp) =
           (IF last.file = "missing" THEN "EngineNotFound"
            ELSE "EngineNotExecutable")
     /\ NoOp

C28_Witness ==
  /\ last.op = "initEngine"
  /\ last.file = "notexec"
  /\ last.resp = "notExecutable"
  /\ last.pre.state = "Ready"
  /\ State = "Ready"

\* C29: setMoves does not refuse a request because of a move of a length
\* outside 4..5: it logs exactly the moves of such a length as invalid and
\* passes the whole move list of the request on to the engine, unchanged and
\* in its order.
C29_ValidateButForward ==
  (last.op = "setMoves" /\ last.wrote # <<>>) =>
     /\ last.resp = "received"
     /\ last.wrote[1].moves = script.moves
     /\ invalidMoves(script.fen \o script.moves) =
           SelectSeq(script.moves, LAMBDA m : Length(m) \notin 4..5)

C31_InitSequence ==
  /\ last.op = "start" =>
        /\ last.wrote = <<Cmd("uci")>>
        /\ last.resp = "none"
        /\ last.pre.importing > 0
  /\ last.op = "initUciok" =>
        /\ last.wrote = <<InitialPosition, Cmd("isready")>>
        /\ last.resp = "none"
        /\ last.pre.live >= 1
        /\ stockfish.init = "readyok"
        /\ State = "Initializing"
  /\ last.resp = "initialized" =>
        /\ last.op = "initReadyok"
        /\ last.wrote = <<>>
        /\ last.to = "handle" =>
              /\ last.pre.stockfish.init = "readyok"
              /\ last.pre.state # "Ready"
              /\ stockfish.init = ""
  /\ (Truthy(stockfish) /\ stockfish.init = "readyok") => State # "Ready"

C31_Witness ==
  /\ last.op = "initReadyok"
  /\ last.resp = "initialized"
  /\ last.to = "handle"
  /\ last.pre.state = "Initializing"
  /\ State = "Ready"
  /\ stockfish.fen = FENstartposition

\* the ids of the clients of the array q, in its order
Ids(q) == [k \in 1..Len(q) |-> q[k].id]

\* the number of elements of the sequence ids that are t
Count(ids, t) == Len(SelectSeq(ids, LAMBDA e : e = t))

\* C32: a client whose connection has been closed is not registered: after
\* the close no client has the closing id, at any time there are no more
\* clients of an id than open connections of that id, and every record of a
\* step is written to a registered client whose connection is open.
C32_ClosedNotServed ==
  /\ feed.op = "close" =>
        \A k \in 1..Len(clients) : clients[k].id # feed.closed
  /\ \A t \in ClockReadings :
        Count(Ids(clients), t) <= Count(conns, t)
  /\ \A k \in 1..Len(feed.writes) :
        /\ feed.writes[k].to \in 1..Len(clients)
        /\ clients[feed.writes[k].to].id \in Range(conns)

C32_Witness ==
  /\ feed.op = "close"
  /\ Len(feed.before) = 2
  /\ Len(clients) = 1
  /\ clients[1].id # feed.closed
  /\ Len(conns) = 1
  /\ State = "Searching"

\* C33: the handle is set only when the handshake and the ready check of
\* initialize are complete; when the process ends during initialize the
\* handle is not left set, and no initialize is answered "already
\* initialized" while the ready check of the handle is not complete.
C33_HandleOnlyWhenReady ==
  /\ (Truthy(stockfish) /\ Alive(stockfish)) => stockfish.init = ""
  /\ (last.op = "crash" /\ last.pre.state = "Initializing") =>
        ~Truthy(stockfish)
  /\ (last.op = "initEngine" /\ last.resp = "alreadyInitialized") =>
        last.pre.state # "Initializing"

\* C34: no two registered clients have the same id, also when two of them
\* connected at the same reading of the clock, so that a close whose id is
\* registered takes exactly one client out of the array.
C34_UniqueIds ==
  /\ \A i, j \in 1..Len(clients) :
        i # j => clients[i].id # clients[j].id
  /\ (feed.op = "close" /\ Count(Ids(feed.before), feed.closed) > 0) =>
        Len(clients) = Len(feed.before) - 1

\* C35: every record written to a client with the marker of a sent line is
\* a command that the step has written to the engine: a command that is not
\* written, because the process has exited or the write failed, is not
\* reported as sent.
C35_SentWasWritten ==
  \A k \in 1..Len(feed.writes) :
     feed.writes[k].dir = ">>" =>
        \E j \in 1..Len(last.wrote) : last.wrote[j].cmd = feed.writes[k].text

\* the fields of a FEN as one string, a space between two fields
RECURSIVE JoinFields(_)
JoinFields(fields) ==
  IF Len(fields) = 1 THEN fields[1]
  ELSE fields[1] \o " " \o JoinFields(Tail(fields))

\* C36: setMoves takes the URL parameter apart as it was put together: the
\* position command it writes has the six-field FEN of the request as its
\* FEN, or the standard starting FEN when the request has none, and exactly
\* the moves of the request as its moves, no field of the FEN among them
\* (requests whose moves have five characters at most).
C36_UrlSplit ==
  (/\ last.op = "setMoves"
   /\ last.wrote # <<>>
   /\ \A k \in 1..Len(script.moves) : Length(script.moves[k]) <= 5) =>
     /\ last.wrote[1].fen = (IF script.fen = <<>> THEN FENstartposition
                             ELSE JoinFields(script.fen))
     /\ last.wrote[1].moves = script.moves
     /\ \A k \in 1..Len(last.wrote[1].moves) :
           last.wrote[1].moves[k] \notin Range(FenFields)

\* C37: what sse sets up for a connection is released when the connection
\* closes: there are as many intervals running as clients registered.
C37_TimersReleased ==
  timers = Len(clients)

====
